---- MODULE Spec2Model ----
(***************************************************************************)
(* Cuckoo Breeding Ground (CBG) hash table, src/cbg.hpp.                   *)
(*                                                                         *)
(* The model is the map instantiated over the "Array of Structs" layout    *)
(* (one metadata byte per cell, no hash fingerprint): CBG_MAP_IMPL over    *)
(* CBG_IMPL with MetadataLayout_AoS.  Cells are indexed from 0.            *)
(*                                                                         *)
(* size_t is modelled with SizeBits bits where its width matters: hash     *)
(* values, the multiply-high reduction and the saturation of the capacity. *)
(* Cell indices are kept as integers; a negative index stands for a value  *)
(* that wrapped around in the code and, like every index >= num_buckets,   *)
(* designates memory outside the table.  An access outside the table (or   *)
(* through the null pointer of a table without storage) is undefined       *)
(* behaviour: the model records it in "fault" and stops there, and nothing *)
(* is claimed of the other variables in such a state.                      *)
(***************************************************************************)
EXTENDS Integers, Sequences, FiniteSets, TLC

\* ------------------------------------------------------------------------
\* Program constants
\* ------------------------------------------------------------------------
NUM_ELEMS_BUCKET == 3
L_MAX == 7
MIN_BINS_SIZE == 2 * NUM_ELEMS_BUCKET - 2

\* ------------------------------------------------------------------------
\* Bounds of the model
\* ------------------------------------------------------------------------
SizeBits == 4
NumKeys == 4
NumVals == 2
NumHashers == 3
MaxInitCap == 4
MaxOps == 5
MaxReserveStep == 2
MaxReserve == 9
\* the eviction chains over more than two buckets: capacity and inserts
ChainCap == 14
ChainOps == 13
\* the two-anchor scenario: largest first capacity and number of inserts
PairCap == 14
PairOps == 9

SIZE_MAX == 2^SizeBits - 1
HashSpace == 2^SizeBits

Keys == 0 .. (NumKeys - 1)
Vals == 1 .. NumVals
\* payload of a cell that was allocated and never written
Uninit == [k |-> -1, v |-> 0]

Max(a, b) == IF a >= b THEN a ELSE b
Min(a, b) == IF a <= b THEN a ELSE b

\* ------------------------------------------------------------------------
\* User-supplied double hasher (HASHER::operator()), one of a few families
\* ------------------------------------------------------------------------
\* 1: a single-hash implementation sending every key to one anchor
\* 2: keys spread over the table, the primary anchors clustered
\* 3: a single-hash implementation sending every key to the last anchor
\* others: every key to the same two anchors
\* 0 and below: four anchors in a ring, key k to the anchors k and k + 1 of
\* the ring; the buckets of ring 0 are disjoint, those of the other overlap
Ring(h) == IF h = 0 THEN <<0, 4, 7, 11>> ELSE <<0, 4, 8, 10>>
Hasher(h, key) ==
    CASE h <= 0 -> <<Ring(h)[(key % 4) + 1], Ring(h)[((key + 1) % 4) + 1]>>
      [] h = 1 -> <<9, 9>>
      [] h = 2 -> <<(9 + 2 * (key % 2)) % HashSpace, (3 + 5 * key) % HashSpace>>
      [] h = 3 -> <<HashSpace - 1, HashSpace - 1>>
      [] OTHER -> <<5, 12>>

\* fastrange: multiply-high reduction of a hash to [0, p)
fastrange(word, p) == (word * p) \div HashSpace

\* ------------------------------------------------------------------------
\* Metadata codec (MetadataLayout_AoS), on a raw metadata byte
\* ------------------------------------------------------------------------
RECURSIVE BitOr(_, _)
BitOr(a, b) ==
    IF a = 0 THEN b
    ELSE IF b = 0 THEN a
    ELSE (IF a % 2 = 1 \/ b % 2 = 1 THEN 1 ELSE 0) + 2 * BitOr(a \div 2, b \div 2)

Byte_Label(m) == m % 8
Byte_Distance(m) == (m \div 8) % 4
Byte_ReverseItem(m) == (m \div 32) % 2 = 1
Byte_BucketReversed(m) == (m \div 64) % 2 = 1
Byte_Unlucky(m) == (m \div 128) % 2 = 1
\* Set_Empty that clears the label and leaves distance and reversed_item
Byte_SetEmpty_Label(m) == m - (m % 8)
\* Set_Empty that zeroes the whole byte
Byte_SetEmpty_Whole(m) == m - m
Byte_SetEmpty(m) == (m \div 64) * 64
Byte_Update(m, distance_to_base, is_reverse_item, label) ==
    BitOr(BitOr(BitOr((m \div 64) * 64, IF is_reverse_item THEN 32 ELSE 0),
                (distance_to_base % 256) * 8), label) % 256

\* ------------------------------------------------------------------------
\* The table as a value: [metadata, payload, num_elems, num_buckets, fault]
\* ------------------------------------------------------------------------
InB(t, pos) == pos >= 0 /\ pos < t.num_buckets
Fault(t, what) == IF t.fault = "none" THEN [t EXCEPT !.fault = what] ELSE t

at(t, pos) == IF InB(t, pos) THEN t.metadata[pos] ELSE 0
Get_Label(t, pos) == Byte_Label(at(t, pos))
Is_Empty(t, pos) == Get_Label(t, pos) = 0
Is_Item_In_Reverse_Bucket(t, pos) == Byte_ReverseItem(at(t, pos))
Distance_to_Entry_Bin(t, pos) == Byte_Distance(at(t, pos))
Is_Bucket_Reversed(t, pos) == Byte_BucketReversed(at(t, pos))
Is_Unlucky_Bucket(t, pos) == Byte_Unlucky(at(t, pos))

SetMeta(t, pos, m) ==
    IF InB(t, pos) THEN [t EXCEPT !.metadata[pos] = m] ELSE Fault(t, "oob")
Set_Empty(t, pos) == SetMeta(t, pos, Byte_SetEmpty(at(t, pos)))
Update_Bin_At(t, pos, distance_to_base, is_reverse_item, label) ==
    SetMeta(t, pos, Byte_Update(at(t, pos), distance_to_base, is_reverse_item, label))
Set_Unlucky_Bucket(t, pos) == SetMeta(t, pos, BitOr(at(t, pos), 128))
Set_Bucket_Reversed(t, pos) == SetMeta(t, pos, BitOr(at(t, pos), 64))
\* METADATA::Clear(initial_pos, size_in_bins)
Clear(t, initial_pos, size_in_bins) ==
    IF size_in_bins <= 0 THEN t
    ELSE IF initial_pos < 0 \/ initial_pos + size_in_bins > t.num_buckets
    THEN Fault(t, "oob")
    ELSE [t EXCEPT !.metadata = [i \in DOMAIN t.metadata |->
            IF i >= initial_pos /\ i < initial_pos + size_in_bins THEN 0
            ELSE t.metadata[i]]]

GetElem(t, pos) == IF InB(t, pos) THEN t.payload[pos] ELSE Uninit
GetKey(t, pos) == GetElem(t, pos).k
SaveElem(t, pos, elem) ==
    IF InB(t, pos) THEN [t EXCEPT !.payload[pos] = elem] ELSE Fault(t, "oob")
MoveElem(t, dest, orig) == SaveElem(t, dest, GetElem(t, orig))
cmp_elems(t, pos, key) == GetKey(t, pos) = key

\* ------------------------------------------------------------------------
\* Insertion algorithm utilities
\* ------------------------------------------------------------------------
RECURSIVE CalcMinLoop(_, _, _, _, _)
CalcMinLoop(t, bucket_pos, i, minimum, pos) ==
    IF minimum = 0 \/ i >= NUM_ELEMS_BUCKET THEN <<minimum, pos>>
    ELSE LET label_value == Get_Label(t, bucket_pos + i)
         IN IF minimum > label_value
            THEN CalcMinLoop(t, bucket_pos, i + 1, label_value, bucket_pos + i)
            ELSE CalcMinLoop(t, bucket_pos, i + 1, minimum, pos)

\* <<minimum label, its position>>; the scan stops at the first empty cell
Calculate_Minimum(t, bucket_pos) ==
    CalcMinLoop(t, bucket_pos, 1, Get_Label(t, bucket_pos), bucket_pos)

\* the cells Calculate_Minimum reads lie in the table
CalcMinInB(t, bucket_pos) ==
    LET r == Calculate_Minimum(t, bucket_pos)
    IN bucket_pos >= 0 /\
       (IF r[1] = 0 THEN r[2] ELSE bucket_pos + NUM_ELEMS_BUCKET - 1) < t.num_buckets

Belong_to_Bucket(t, elem_pos) ==
    IF Is_Empty(t, elem_pos) THEN SIZE_MAX
    ELSE elem_pos
         + (IF Is_Item_In_Reverse_Bucket(t, elem_pos) THEN NUM_ELEMS_BUCKET - 1 ELSE 0)
         - Distance_to_Entry_Bin(t, elem_pos)

Count_Empty(t, pos) ==
    Cardinality({i \in 0 .. (NUM_ELEMS_BUCKET - 1) : Is_Empty(t, pos + i)})

Count_Elems_In_Bucket_Non_Reversed(t, bucket_pos) ==
    Cardinality({i \in 0 .. (NUM_ELEMS_BUCKET - 1) :
        /\ ~Is_Item_In_Reverse_Bucket(t, bucket_pos + i)
        /\ i = Distance_to_Entry_Bin(t, bucket_pos + i)})

\* for (; !Is_Empty(bucket_pos - j); j--): the j the loop stops at.  j is
\* unsigned in the code: below 0 it wraps and bucket_pos - j runs upward.
RECURSIVE RB_FindEmpty(_, _, _)
RB_FindEmpty(t, bucket_pos, j) ==
    IF ~InB(t, bucket_pos - j) \/ Is_Empty(t, bucket_pos - j) THEN j
    ELSE RB_FindEmpty(t, bucket_pos, j - 1)

\* Update_Bin_At(dst, ..), Set_Empty(src), MoveElem(dst, src)
RB_Move(t, dst, src, distance_to_base) ==
    MoveElem(Set_Empty(Update_Bin_At(t, dst, distance_to_base, TRUE, Get_Label(t, src)),
                       src),
             dst, src)

RECURSIVE RB_Loop(_, _, _, _)
RB_Place(t, bucket_pos, i, j2) ==
    RB_Loop(RB_Move(t, bucket_pos - j2, bucket_pos + i, NUM_ELEMS_BUCKET - 1 - j2),
            bucket_pos, i + 1, j2)

RB_Loop(t, bucket_pos, i, j) ==
    IF i >= NUM_ELEMS_BUCKET \/ t.fault # "none" THEN t
    ELSE IF ~InB(t, bucket_pos + i) THEN Fault(t, "oob")
    ELSE IF Belong_to_Bucket(t, bucket_pos + i) = bucket_pos
    THEN RB_Place(t, bucket_pos, i, RB_FindEmpty(t, bucket_pos, j))
    ELSE RB_Loop(t, bucket_pos, i + 1, j)

Reverse_Bucket(t, bucket_pos) ==
    RB_Loop(Set_Bucket_Reversed(t, bucket_pos), bucket_pos, 0, NUM_ELEMS_BUCKET - 1)

\* The reversal analysis of Find_Empty_Pos_Hopscotch: the empties counted in
\* [q-B+1, q], with one more when the cell q holds an element anchored at q
\* (0 when no cell is empty)
Credit(t, q, count_empty) ==
    IF count_empty = 0 THEN 0
    ELSE IF Belong_to_Bucket(t, q) = q THEN count_empty + 1 ELSE count_empty
Reversal_Empties(t, q) == Credit(t, q, Count_Empty(t, q + 1 - NUM_ELEMS_BUCKET))

\* the cells the analysis reads lie in the table
Reversal_InB(t, q) ==
    /\ q + 1 - NUM_ELEMS_BUCKET >= 0
    /\ q < t.num_buckets
    /\ (Count_Empty(t, q + 1 - NUM_ELEMS_BUCKET) # 0
           => q + NUM_ELEMS_BUCKET - 1 < t.num_buckets)

\* a reversal test that only asks for an empty cell
Any_Empties(count_empty, count_elems) == count_empty # 0

\* "Then try to reverse the bucket": strictly more empties than elements
More_Empties(count_empty, count_elems) == count_empty # 0 /\ count_empty > count_elems
Should_Reverse_Bucket(t, bucket_pos) ==
    More_Empties(Reversal_Empties(t, bucket_pos),
                 Count_Elems_In_Bucket_Non_Reversed(t, bucket_pos))

\* a neighbour test that only asks for an empty cell
Some_Empty(count_empty, count_elems) == count_empty # 0

\* "Then try to reverse elems": at least as many empties as elements
Enough_Empties(count_empty, count_elems) == count_empty # 0 /\ count_empty >= count_elems
Should_Reverse_Neighbour(t, bucket_elem) ==
    Enough_Empties(Reversal_Empties(t, bucket_elem),
                   Count_Elems_In_Bucket_Non_Reversed(t, bucket_elem))

\* for (; (pos_blank - pos_swap) > (B - 1 - Distance(pos_swap)); pos_swap++)
\* (unsigned: a distance above B-1 makes the right side wrap to a huge value)
RECURSIVE HS_FindSwap(_, _, _)
HS_FindSwap(t, pos_blank, pos_swap) ==
    IF \/ pos_swap >= pos_blank
       \/ NUM_ELEMS_BUCKET - 1 - Distance_to_Entry_Bin(t, pos_swap) < 0
       \/ (pos_blank - pos_swap) <= NUM_ELEMS_BUCKET - 1 - Distance_to_Entry_Bin(t, pos_swap)
    THEN pos_swap
    ELSE HS_FindSwap(t, pos_blank, pos_swap + 1)

\* a swap that copies the distance of the moved element as it is
HS_Move_Same_Distance(t, pos_blank, pos_swap) ==
    Update_Bin_At(MoveElem(t, pos_blank, pos_swap), pos_blank,
                  Distance_to_Entry_Bin(t, pos_swap),
                  Is_Item_In_Reverse_Bucket(t, pos_swap), Get_Label(t, pos_swap))

\* MoveElem(pos_blank, pos_swap), Update_Bin_At(pos_blank, ..)
HS_Move(t, pos_blank, pos_swap) ==
    Update_Bin_At(MoveElem(t, pos_blank, pos_swap), pos_blank,
                  Distance_to_Entry_Bin(t, pos_swap) + (pos_blank - pos_swap),
                  Is_Item_In_Reverse_Bucket(t, pos_swap), Get_Label(t, pos_swap))

\* while ((pos_blank - bucket_init) >= B) { swap }: [t, pos]
RECURSIVE HS_Swap(_, _, _)
HS_Swap_With(t, bucket_init, pos_blank, pos_swap) ==
    IF pos_swap = pos_blank
    \* the blank is swapped with itself for ever
    THEN [t |-> Fault(t, "hang"), pos |-> SIZE_MAX]
    ELSE HS_Swap(HS_Move(t, pos_blank, pos_swap), bucket_init, pos_swap)

HS_Swap(t, bucket_init, pos_blank) ==
    IF t.fault # "none" THEN [t |-> t, pos |-> SIZE_MAX]
    ELSE IF pos_blank - bucket_init < NUM_ELEMS_BUCKET THEN [t |-> t, pos |-> pos_blank]
    ELSE HS_Swap_With(t, bucket_init, pos_blank,
                      HS_FindSwap(t, pos_blank, pos_blank + 1 - NUM_ELEMS_BUCKET))

\* max_dist_to_move after the occupied cell at offset i
HS_Reach(max_dist_to_move, current_max_move) ==
    IF current_max_move < 0 THEN SIZE_MAX ELSE Max(max_dist_to_move, current_max_move)

\* for (i = 0; i <= max_dist_to_move && (bucket_init + i) < num_buckets; i++)
RECURSIVE HS_Scan(_, _, _, _)
HS_Scan(t, bucket_init, i, max_dist_to_move) ==
    IF ~(i <= max_dist_to_move /\ InB(t, bucket_init + i)) THEN [t |-> t, pos |-> SIZE_MAX]
    ELSE IF Is_Empty(t, bucket_init + i) THEN HS_Swap(t, bucket_init, bucket_init + i)
    ELSE HS_Scan(t, bucket_init, i + 1,
                 HS_Reach(max_dist_to_move,
                          i + NUM_ELEMS_BUCKET - 1
                            - Distance_to_Entry_Bin(t, bucket_init + i)))

\* "Then try to hopscotch for an empty space"
Hopscotch(t, bucket_init) ==
    IF t.fault # "none" THEN [t |-> t, pos |-> SIZE_MAX]
    ELSE HS_Scan(t, bucket_init, 0, NUM_ELEMS_BUCKET - 1)

\* "Then try to reverse elems": the first cell of the window whose element
\* is anchored at another bucket that may be reversed; that anchor, SIZE_MAX
\* when there is none, -1 when the analysis reads outside the table
RECURSIVE NR_Find(_, _, _, _)
NR_Check(t, bucket_pos, bucket_init, i, bucket_elem) ==
    IF ~Is_Item_In_Reverse_Bucket(t, bucket_init + i) /\ bucket_elem # bucket_pos
    THEN IF ~Reversal_InB(t, bucket_elem) THEN -1
         ELSE IF Should_Reverse_Neighbour(t, bucket_elem) THEN bucket_elem
         ELSE NR_Find(t, bucket_pos, bucket_init, i + 1)
    ELSE NR_Find(t, bucket_pos, bucket_init, i + 1)

NR_Find(t, bucket_pos, bucket_init, i) ==
    IF i >= NUM_ELEMS_BUCKET THEN SIZE_MAX
    ELSE IF ~InB(t, bucket_init + i) THEN -1
    ELSE NR_Check(t, bucket_pos, bucket_init, i,
                  bucket_init + i - Distance_to_Entry_Bin(t, bucket_init + i))

\* the table after the neighbour stage, q being the anchor NR_Find chose
NR_Table(t, q) ==
    IF q = -1 THEN Fault(t, "oob")
    ELSE IF q = SIZE_MAX THEN t
    ELSE Reverse_Bucket(t, q)

\* hopscotch stage unless the reversal of q exposed an empty cell
FEPH_After_Neighbour(t1, bucket_init, q) ==
    IF t1.fault # "none" THEN [t |-> t1, pos |-> SIZE_MAX]
    ELSE IF q # SIZE_MAX /\ Calculate_Minimum(t1, bucket_init)[1] = 0
    THEN [t |-> t1, pos |-> Calculate_Minimum(t1, bucket_init)[2]]
    ELSE Hopscotch(t1, bucket_init)

FEPH_Neighbour_With(t, bucket_init, q) ==
    FEPH_After_Neighbour(NR_Table(t, q), bucket_init, q)

\* second stage onwards, from the window start bucket_init
FEPH_Neighbour(t, bucket_pos, bucket_init) ==
    IF t.fault # "none" THEN [t |-> t, pos |-> SIZE_MAX]
    ELSE IF bucket_init >= 2 * NUM_ELEMS_BUCKET
    THEN FEPH_Neighbour_With(t, bucket_init, NR_Find(t, bucket_pos, bucket_init, 0))
    ELSE FEPH_Neighbour_With(t, bucket_init, SIZE_MAX)

\* the bucket reversal stage applies
FEPH_Reverses(t, bucket_pos) ==
    /\ ~Is_Bucket_Reversed(t, bucket_pos)
    /\ bucket_pos >= NUM_ELEMS_BUCKET
    /\ Reversal_InB(t, bucket_pos)
    /\ Should_Reverse_Bucket(t, bucket_pos)

\* the bucket reversal stage reads outside the table
FEPH_Oob(t, bucket_pos) ==
    /\ ~Is_Bucket_Reversed(t, bucket_pos)
    /\ bucket_pos >= NUM_ELEMS_BUCKET
    /\ ~Reversal_InB(t, bucket_pos)

FEPH_After_Reverse(t1, bucket_pos, bucket_init, reversed) ==
    IF t1.fault # "none" THEN [t |-> t1, pos |-> SIZE_MAX]
    ELSE IF reversed /\ Calculate_Minimum(t1, bucket_init)[1] = 0
    THEN [t |-> t1, pos |-> Calculate_Minimum(t1, bucket_init)[2]]
    ELSE FEPH_Neighbour(t1, bucket_pos, bucket_init)

FEPH_Stage1(t, bucket_pos, bucket_init, reversed) ==
    FEPH_After_Reverse(IF reversed THEN Reverse_Bucket(t, bucket_pos) ELSE t,
                       bucket_pos,
                       IF reversed THEN bucket_pos + 1 - NUM_ELEMS_BUCKET ELSE bucket_init,
                       reversed)

\* [t, pos]: pos = SIZE_MAX when no space was found
Find_Empty_Pos_Hopscotch(t, bucket_pos, bucket_init) ==
    IF FEPH_Oob(t, bucket_pos) THEN [t |-> Fault(t, "oob"), pos |-> SIZE_MAX]
    ELSE FEPH_Stage1(t, bucket_pos, bucket_init, FEPH_Reverses(t, bucket_pos))

\* ------------------------------------------------------------------------
\* try_insert
\* ------------------------------------------------------------------------
\* <<minimum label, first position holding it>> over the whole window
RECURSIVE MinLabelLoop(_, _, _, _, _)
MinLabelLoop(t, bucket_init, i, minimum, pos) ==
    IF i >= NUM_ELEMS_BUCKET THEN <<minimum, pos>>
    ELSE IF minimum > Get_Label(t, bucket_init + i)
    THEN MinLabelLoop(t, bucket_init, i + 1, Get_Label(t, bucket_init + i), bucket_init + i)
    ELSE MinLabelLoop(t, bucket_init, i + 1, minimum, pos)
MinLabel(t, bucket_init) ==
    MinLabelLoop(t, bucket_init, 1, Get_Label(t, bucket_init), bucket_init)

\* window start of the bucket anchored at bucket_pos
Bucket_Init(t, bucket_pos) ==
    bucket_pos + (IF Is_Bucket_Reversed(t, bucket_pos) THEN 1 - NUM_ELEMS_BUCKET ELSE 0)

\* Update_Bin_At + SaveElem + num_elems++ of the four placements
Count_Up(t) == [t EXCEPT !.num_elems = t.num_elems + 1]
\* a placement that also marks the cell it writes as an unlucky anchor
Place_Marking(t, pos, bucket_init, is_reversed, label, e) ==
    Set_Unlucky_Bucket(
        Count_Up(SaveElem(Update_Bin_At(t, pos, pos - bucket_init, is_reversed, label),
                          pos, e)),
        pos)

Place(t, pos, bucket_init, is_reversed, label, e) ==
    Count_Up(SaveElem(Update_Bin_At(t, pos, pos - bucket_init, is_reversed, label), pos, e))

\* an eviction that keeps the new element in hand and drops the victim
Evict_Drop(t, pos, bucket_init, is_reversed, label, e) ==
    [t |-> SaveElem(Update_Bin_At(t, pos, pos - bucket_init, is_reversed, label), pos, e),
     elem |-> e]

\* an eviction that leaves the cell the label the victim had
Evict_Same_Label(t, pos, bucket_init, is_reversed, label, e) ==
    [t |-> SaveElem(Update_Bin_At(t, pos, pos - bucket_init, is_reversed,
                                  Get_Label(t, pos)),
                    pos, e),
     elem |-> GetElem(t, pos)]

\* Update_Bin_At, victim = GetElem, SaveElem of the eviction: [t, elem]
Evict(t, pos, bucket_init, is_reversed, label, e) ==
    [t |-> SaveElem(Update_Bin_At(t, pos, pos - bucket_init, is_reversed, label), pos, e),
     elem |-> GetElem(t, pos)]

\* the "> 90%" gate of the secondary hopscotch
Load_Above_90(t) == t.num_elems * 10 > 9 * t.num_buckets

\* a terminating condition met as soon as one bucket is saturated
Labels_Saturated_Either(min1, min2) == Max(min1, min2) >= L_MAX

\* a terminating condition that compares with > instead of >=
Labels_Saturated_Strict(min1, min2) == Min(min1, min2) > L_MAX

\* the terminating condition of the eviction loop
Labels_Saturated(min1, min2) == Min(min1, min2) >= L_MAX

\* a label that is not clamped to L_MAX
New_Label_Unclamped(m) == m + 1

\* the label given to an element placed while the other bucket's minimum is m
New_Label(m) == Min(m + 1, L_MAX)

\* The locals try_insert computes at the top of an iteration
Locals_Of(bucket1_pos, bucket2_pos, is_reversed_bucket1, is_reversed_bucket2, bucket1_init, bucket2_init, m1, m2) ==
    [bucket1_pos |-> bucket1_pos, bucket2_pos |-> bucket2_pos,
     is_reversed_bucket1 |-> is_reversed_bucket1,
     is_reversed_bucket2 |-> is_reversed_bucket2,
     bucket1_init |-> bucket1_init, bucket2_init |-> bucket2_init,
     min1 |-> m1[1], pos1 |-> m1[2], min2 |-> m2[1], pos2 |-> m2[2]]

Locals_At(t, bucket1_pos, bucket2_pos) ==
    Locals_Of(bucket1_pos, bucket2_pos,
              Is_Bucket_Reversed(t, bucket1_pos), Is_Bucket_Reversed(t, bucket2_pos),
              Bucket_Init(t, bucket1_pos), Bucket_Init(t, bucket2_pos),
              MinLabel(t, Bucket_Init(t, bucket1_pos)),
              MinLabel(t, Bucket_Init(t, bucket2_pos)))

Locals(t, h, key) ==
    Locals_At(t, fastrange(Hasher(h, key)[1], t.num_buckets),
                 fastrange(Hasher(h, key)[2], t.num_buckets))

\* both windows lie in the table
Windows_InB(t, L) ==
    /\ L.bucket1_init >= 0 /\ L.bucket1_init + NUM_ELEMS_BUCKET - 1 < t.num_buckets
    /\ L.bucket2_init >= 0 /\ L.bucket2_init + NUM_ELEMS_BUCKET - 1 < t.num_buckets

Result(t, e, status) == [t |-> t, elem |-> e, status |-> status]
\* the outcome of an iteration that wrote the element: the table the write
\* was made on, the cell written and the anchor of the element's other bucket
Wrote(before, pos, alt, r) ==
    [t |-> r.t, elem |-> r.elem, status |-> r.status,
     before |-> before, pos |-> pos, alt |-> alt]
Evicted(ev) == Result(ev.t, ev.elem, "evicted")

\* from "Terminating condition" on
Evict_Or_Fail(t, L, e) ==
    IF t.fault # "none" \/ Labels_Saturated(L.min1, L.min2) THEN Result(t, e, "failed")
    ELSE IF L.min1 <= L.min2
    THEN Wrote(t, L.pos1, L.bucket2_pos,
               Evicted(Evict(t, L.pos1, L.bucket1_init, L.is_reversed_bucket1,
                             New_Label(L.min2), e)))
    ELSE Wrote(t, L.pos2, L.bucket1_pos,
               Evicted(Evict(Set_Unlucky_Bucket(t, L.bucket1_pos), L.pos2,
                             L.bucket2_init, L.is_reversed_bucket2,
                             New_Label(L.min1), e)))

\* placement in the second bucket after its hopscotch found r.pos
Place_Secondary(tu, L, pos, e) ==
    Wrote(tu, pos, L.bucket1_pos,
          Result(Place(tu, pos, Bucket_Init(tu, L.bucket2_pos),
                       Is_Bucket_Reversed(tu, L.bucket2_pos), New_Label(L.min1), e),
                 e, "placed"))

After_Hopscotch2(r, L, e) ==
    IF r.t.fault = "none" /\ r.pos # SIZE_MAX
    THEN Place_Secondary(Set_Unlucky_Bucket(r.t, L.bucket1_pos), L, r.pos, e)
    ELSE Evict_Or_Fail(r.t, L, e)

\* from "Secondary added, Unlucky bucket added" on
Secondary(t, L, e) ==
    IF L.min2 = 0
    THEN Wrote(t, L.pos2, L.bucket1_pos,
               Result(Place(Set_Unlucky_Bucket(t, L.bucket1_pos), L.pos2, L.bucket2_init,
                            L.is_reversed_bucket2, New_Label(L.min1), e),
                      e, "placed"))
    ELSE After_Hopscotch2(IF Load_Above_90(t)
                          THEN Find_Empty_Pos_Hopscotch(t, L.bucket2_pos, L.bucket2_init)
                          ELSE [t |-> t, pos |-> SIZE_MAX],
                          L, e)

After_Hopscotch1(r, L, e) ==
    IF r.t.fault # "none" THEN Result(r.t, e, "failed")
    ELSE IF r.pos # SIZE_MAX
    THEN Wrote(r.t, r.pos, L.bucket2_pos,
               Result(Place(r.t, r.pos, Bucket_Init(r.t, L.bucket1_pos),
                            Is_Bucket_Reversed(r.t, L.bucket1_pos), New_Label(L.min2), e),
                      e, "placed"))
    ELSE Secondary(r.t, L, e)

Round_With(t, L, e) ==
    IF ~Windows_InB(t, L) THEN Result(Fault(t, "oob"), e, "failed")
    ELSE IF L.min1 = 0
    THEN Wrote(t, L.pos1, L.bucket2_pos,
               Result(Place(t, L.pos1, L.bucket1_init, L.is_reversed_bucket1,
                            New_Label(L.min2), e),
                      e, "placed"))
    ELSE After_Hopscotch1(Find_Empty_Pos_Hopscotch(t, L.bucket1_pos, L.bucket1_init), L, e)

\* One iteration of the while (true) of try_insert, for the element in hand.
\* [t, elem, status]: "placed" (return true), "failed" (return false),
\* "evicted" (loop again with the victim)
TryInsertRound(t, h, e) ==
    IF e.k \notin Keys
    \* the payload in hand was read from a cell that was never written
    THEN Result(Fault(t, "uninit"), e, "failed")
    ELSE Round_With(t, Locals(t, h, e.k), e)

\* rounds after which the loop of try_insert is given up as not terminating
RoundFuel(t) == 2 * L_MAX * (t.num_buckets + 1)

\* try_insert: [t, elem, ok, rounds]; elem is the caller's variable afterwards
RECURSIVE TryInsertLoop(_, _, _, _)
TryInsert_Next(r, h, rounds) ==
    IF r.status = "evicted" /\ r.t.fault = "none"
    THEN TryInsertLoop(r.t, h, r.elem, rounds + 1)
    ELSE [t |-> r.t, elem |-> r.elem, ok |-> r.status = "placed", rounds |-> rounds]

TryInsertLoop(t, h, e, rounds) ==
    IF rounds > RoundFuel(t)
    THEN [t |-> Fault(t, "hang"), elem |-> e, ok |-> FALSE, rounds |-> rounds]
    ELSE TryInsert_Next(TryInsertRound(t, h, e), h, rounds)

try_insert(t, h, e) == TryInsertLoop(t, h, e, 0)

\* ------------------------------------------------------------------------
\* find_position (find_position_AoS)
\* ------------------------------------------------------------------------
\* the B cells probed from the anchor pos, in probing order
Probe_Cells(t, pos) ==
    [i \in 1 .. NUM_ELEMS_BUCKET |->
        IF Is_Bucket_Reversed(t, pos) THEN pos - (i - 1) ELSE pos + (i - 1)]

Hit(t, pos, key) == cmp_elems(t, pos, key) /\ ~Is_Empty(t, pos)

\* first probed cell that is occupied and holds the key, SIZE_MAX if none
RECURSIVE Probe(_, _, _, _)
Probe(t, cells, i, key) ==
    IF i > Len(cells) THEN SIZE_MAX
    ELSE IF Hit(t, cells[i], key) THEN cells[i]
    ELSE Probe(t, cells, i + 1, key)

\* the cells up to the hit (all of them on a miss) lie in the table
Probe_InB(t, cells, key) ==
    \A i \in 1 .. Len(cells) :
        (\A j \in 1 .. (i - 1) : ~Hit(t, cells[j], key)) => InB(t, cells[i])

Find_In(t, key, p0, c0, c1) ==
    IF ~Probe_InB(t, c0, key) THEN [pos |-> SIZE_MAX, oob |-> TRUE]
    ELSE IF Probe(t, c0, 1, key) # SIZE_MAX
    THEN [pos |-> Probe(t, c0, 1, key), oob |-> FALSE]
    ELSE IF ~Is_Unlucky_Bucket(t, p0) THEN [pos |-> SIZE_MAX, oob |-> FALSE]
    ELSE IF ~Probe_InB(t, c1, key) THEN [pos |-> SIZE_MAX, oob |-> TRUE]
    ELSE [pos |-> Probe(t, c1, 1, key), oob |-> FALSE]

Find_At(t, key, p0, p1) == Find_In(t, key, p0, Probe_Cells(t, p0), Probe_Cells(t, p1))

\* [pos, oob]: the position found (SIZE_MAX on a miss), and whether a cell
\* outside the table was read on the way
find_position(t, h, key) ==
    Find_At(t, key, fastrange(Hasher(h, key)[1], t.num_buckets),
                    fastrange(Hasher(h, key)[2], t.num_buckets))

\* ------------------------------------------------------------------------
\* rehash, get_grow_size
\* ------------------------------------------------------------------------
\* ReallocElems + ReallocMetadata: the old cells are kept, the new cells hold
\* nothing yet (their metadata is cleared right after)
Realloc(t, new_num_bins) ==
    [t EXCEPT !.num_buckets = new_num_bins,
              !.metadata = [i \in 0 .. (new_num_bins - 1) |->
                              IF i < t.num_buckets THEN t.metadata[i] ELSE 0],
              !.payload = [i \in 0 .. (new_num_bins - 1) |->
                              IF i < t.num_buckets THEN t.payload[i] ELSE Uninit]]

\* for (i = 0; i < B - 1; i++) Set_Bucket_Reversed(num_buckets - 1 - i)
RECURSIVE Mark_Tail_Reversed(_, _)
Mark_Tail_Reversed(t, i) ==
    IF i >= NUM_ELEMS_BUCKET - 1 THEN t
    ELSE Mark_Tail_Reversed(Set_Bucket_Reversed(t, t.num_buckets - 1 - i), i + 1)

\* "Try to insert primary" of the scan, for the occupied cell i: [t, moved]
Fast_Move(t, i, bucket1_pos_init, pos1) ==
    Count_Up(MoveElem(Update_Bin_At(t, pos1, pos1 - bucket1_pos_init, FALSE, 1), pos1, i))

Fast_Place_At(t, i, bucket1_pos_init) ==
    IF bucket1_pos_init > i \/ bucket1_pos_init < 0
    THEN IF ~CalcMinInB(t, bucket1_pos_init) THEN [t |-> Fault(t, "oob"), moved |-> FALSE]
         ELSE IF Calculate_Minimum(t, bucket1_pos_init)[1] = 0
         THEN [t |-> Fast_Move(t, i, bucket1_pos_init,
                               Calculate_Minimum(t, bucket1_pos_init)[2]),
               moved |-> TRUE]
         ELSE [t |-> t, moved |-> FALSE]
    ELSE [t |-> t, moved |-> FALSE]

Fast_Place(t, h, i) ==
    IF GetKey(t, i) \notin Keys THEN [t |-> Fault(t, "uninit"), moved |-> FALSE]
    ELSE Fast_Place_At(t, i,
             Bucket_Init(t, fastrange(Hasher(h, GetKey(t, i))[1], t.num_buckets)))

\* "Moves items from old end to new end": cells i, i-1, .., 1: [t, tmp]
RECURSIVE Scan_Old(_, _, _, _)
Scan_Placed(f, h, i, tmp, e) ==
    Scan_Old(Clear(f.t, i, 1), h, i - 1, IF f.moved THEN tmp ELSE Append(tmp, e))

Scan_Old(t, h, i, tmp) ==
    IF i <= 0 \/ t.fault # "none" THEN [t |-> t, tmp |-> tmp]
    ELSE IF Is_Empty(t, i) THEN Scan_Old(Clear(t, i, 1), h, i - 1, tmp)
    ELSE Scan_Placed(Fast_Place(t, h, i), h, i, tmp, GetElem(t, i))

\* "First element"
Scan_First(sc) ==
    [t |-> Clear(sc.t, 0, 1),
     tmp |-> IF Is_Empty(sc.t, 0) THEN sc.tmp ELSE Append(sc.tmp, GetElem(sc.t, 0))]

\* "Insert other elements": [t, tmp, need_rehash]
RECURSIVE Drain(_, _, _)
Drain_Next(r, h, tmp) ==
    IF r.ok THEN Drain(r.t, h, SubSeq(tmp, 1, Len(tmp) - 1))
    ELSE [t |-> r.t, tmp |-> [tmp EXCEPT ![Len(tmp)] = r.elem], need_rehash |-> TRUE]

Drain(t, h, tmp) ==
    IF tmp = <<>> \/ t.fault # "none" THEN [t |-> t, tmp |-> tmp, need_rehash |-> FALSE]
    ELSE Drain_Next(try_insert(t, h, tmp[Len(tmp)]), h, tmp)

Drain_Scanned(sc, h) == Drain(sc.t, h, sc.tmp)

\* new_num_buckets += max(1, new_num_buckets / 128), in size_t
Next_Rehash_Size(new_num_buckets) ==
    (new_num_buckets + Max(1, new_num_buckets \div 128)) % HashSpace

\* "Initialize metadata" on the reallocated table
Init_Metadata(t, old_num_buckets) ==
    Mark_Tail_Reversed(
        [(IF old_num_buckets # 0
          THEN Clear(t, old_num_buckets, t.num_buckets - old_num_buckets)
          ELSE Clear(t, 0, t.num_buckets)) EXCEPT !.num_elems = 0], 0)

\* the scan starts at i = old_num_buckets - 1, which wraps to SIZE_MAX when
\* there was no table
Scan_From(t, h, old_num_buckets, tmp) ==
    Scan_Old(IF old_num_buckets = 0 THEN Fault(t, "oob") ELSE t,
             h, old_num_buckets - 1, tmp)

\* One iteration of the while (need_rehash) of rehash, to the capacity
\* new_num_buckets: [t, tmp, need_rehash]
Rehash_Pass(t, h, new_num_buckets, tmp) ==
    IF new_num_buckets < t.num_buckets
    \* the size wrapped around: Clear(old, new - old) runs over the heap
    THEN [t |-> Fault([t EXCEPT !.num_buckets = new_num_buckets], "oob"),
          tmp |-> tmp, need_rehash |-> FALSE]
    ELSE Drain_Scanned(
             Scan_First(Scan_From(Init_Metadata(Realloc(t, new_num_buckets), t.num_buckets),
                                  h, t.num_buckets, tmp)),
             h)

\* size_t(num_buckets * _grow_factor); the conversion of a value above
\* SIZE_MAX is undefined and gives conv
Grow_Overflows(nb, gf) == (nb * gf) \div 10 > SIZE_MAX
Grow_Product(nb, gf, conv) ==
    IF Grow_Overflows(nb, gf) THEN conv ELSE (nb * gf) \div 10

Saturate(new_num_buckets, nb) ==
    IF new_num_buckets < nb THEN SIZE_MAX ELSE new_num_buckets

get_grow_size(nb, gf, conv) ==
    Saturate(Max((nb + MIN_BINS_SIZE) % HashSpace, Grow_Product(nb, gf, conv)), nb)

\* num_elems >= num_buckets * _max_load_factor (mlf in 1/10000)
Load_Reached(t, mlf) == t.num_elems * 10000 >= t.num_buckets * mlf

\* ------------------------------------------------------------------------
\* State
\* ------------------------------------------------------------------------
VARIABLES
    metadata,          \* METADATA: cell -> metadata byte
    payload,           \* DATA: cell -> [k, v]
    num_elems,
    num_buckets,
    max_load_factor,   \* _max_load_factor, in 1/10000
    grow_factor,       \* _grow_factor, in 1/10
    fault,             \* "none", or the undefined behaviour / endless loop met
    hasher,            \* the HASHER the table was instantiated with
    pc,                \* "idle", or the loop head an insert / reserve stands at
    elem,              \* insert: INSERT_TYPE elem, the element in hand
    new_num_buckets,   \* rehash: capacity of the next pass
    secondary_tmp,     \* rehash: std::vector secondary_tmp
    cont,              \* rehash: "try" when called by insert, "idle" by reserve
    last,              \* the public operation performed last: [op, arg, ret]
    ops,               \* number of public operations performed
    rounds,            \* try_insert run round by round: evictions done so far
    ref                \* reference map run in parallel: key -> [in, v], v the
                       \* value inserted last (kept when the key is erased)

vars == <<metadata, payload, num_elems, num_buckets, max_load_factor, grow_factor,
          fault, hasher, pc, elem, new_num_buckets, secondary_tmp, cont, last, ops,
          rounds, ref>>

Table == [metadata |-> metadata, payload |-> payload, num_elems |-> num_elems,
          num_buckets |-> num_buckets, fault |-> fault]

MaxLoadFactors == {9001, 4000}
GrowFactors == {11, 20}
\* what the float -> size_t conversion of an out-of-range product may give
ConvOutcomes == {0, SIZE_MAX}
\* the outcomes that matter to get_grow_size in the current state
Conv == IF Grow_Overflows(num_buckets, grow_factor) THEN ConvOutcomes ELSE {0}

\* CBG_IMPL(): no storage
Default_Constructed ==
    [metadata |-> <<>>, payload |-> <<>>, num_elems |-> 0, num_buckets |-> 0,
     fault |-> "none"]

\* CBG_IMPL(expected_num_elems)
Constructed(expected_num_elems) ==
    LET n == Max(MIN_BINS_SIZE, expected_num_elems)
    IN Mark_Tail_Reversed([metadata |-> [i \in 0 .. (n - 1) |-> 0],
                           payload |-> [i \in 0 .. (n - 1) |-> Uninit],
                           num_elems |-> 0, num_buckets |-> n, fault |-> "none"], 0)

\* ------------------------------------------------------------------------
\* Control flow of insert and rehash, up to the next loop head
\* [t, pc, elem, new_num_buckets, secondary_tmp, cont]
\* ------------------------------------------------------------------------
Done(t) ==
    [t |-> t, pc |-> "idle", elem |-> Uninit, new_num_buckets |-> 0,
     secondary_tmp |-> <<>>, cont |-> "idle"]

Retry(r) ==
    [t |-> r.t, pc |-> "retry", elem |-> r.elem, new_num_buckets |-> 0,
     secondary_tmp |-> <<>>, cont |-> "idle"]

\* while (!try_insert(elem)) ...
Tried(r) == IF r.ok \/ r.t.fault # "none" THEN Done(r.t) ELSE Retry(r)
Run_Try(t, h, e) == Tried(try_insert(t, h, e))

\* the top of the while (true) of try_insert, e in hand
Begin_Try(t, e) ==
    [t |-> t, pc |-> "try", elem |-> e, new_num_buckets |-> 0,
     secondary_tmp |-> <<>>, cont |-> "idle"]

\* c tells what follows the rehash: "try" the try_insert of insert, "round"
\* the same run round by round, "idle" the return of reserve
After_Rehash(t, h, c, e) ==
    IF c = "try" THEN Run_Try(t, h, e)
    ELSE IF c = "round" THEN Begin_Try(t, e)
    ELSE Done(t)

Passed(r, h, new_n, c, e) ==
    IF r.t.fault # "none" THEN Done(r.t)
    ELSE IF r.need_rehash
    THEN [t |-> r.t, pc |-> "rehash", elem |-> e,
          new_num_buckets |-> Next_Rehash_Size(new_n),
          secondary_tmp |-> r.tmp, cont |-> c]
    ELSE After_Rehash(r.t, h, c, e)

Run_Rehash_Pass(t, h, new_n, tmp, c, e) ==
    Passed(Rehash_Pass(t, h, new_n, tmp), h, new_n, c, e)

\* rehash(new_n) followed by what its caller does next
rehash(t, h, new_n, c, e) ==
    IF new_n <= t.num_buckets THEN After_Rehash(t, h, c, e)
    ELSE Run_Rehash_Pass(t, h, new_n, <<>>, c, e)

\* insert that does not look at the load
insert_Unchecked(t, h, mlf, gf, conv, e) == Run_Try(t, h, e)

\* insert(to_insert_elem) up to its first loop head
insert(t, h, mlf, gf, conv, e) ==
    IF Load_Reached(t, mlf)
    THEN rehash(t, h, get_grow_size(t.num_buckets, gf, conv), "try", e)
    ELSE Run_Try(t, h, e)

\* erase(elem): [t, ret]
Erase_At(t, f) ==
    IF f.oob THEN [t |-> Fault(t, "oob"), ret |-> 0]
    ELSE IF f.pos # SIZE_MAX THEN [t |-> Set_Empty(t, f.pos), ret |-> 1]
    ELSE [t |-> t, ret |-> 0]
erase(t, h, key) == Erase_At(t, find_position(t, h, key))

\* clear()
clear(t) ==
    Mark_Tail_Reversed(Clear([t EXCEPT !.num_elems = 0], 0, t.num_buckets), 0)

\* load_factor(): size() * 100f / capacity(), the float as the fraction
\* num / den
load_factor(t) == [num |-> t.num_elems * 100, den |-> t.num_buckets]

\* ------------------------------------------------------------------------
\* Map operations (CBG_MAP_IMPL)
\* ------------------------------------------------------------------------
\* T(), the value operator[] inserts
Default_Value == 0
\* the outcome of at() that throws std::out_of_range
Out_Of_Range == 0 - 1

\* a control record with the table t and the result ret of the call
With_Ret(c, t, ret) ==
    [t |-> t, pc |-> c.pc, elem |-> c.elem, new_num_buckets |-> c.new_num_buckets,
     secondary_tmp |-> c.secondary_tmp, cont |-> c.cont, ret |-> ret]

\* operator[]: return *DATA::GetValue(key_pos), key_pos found as f
Index_Return(c, f) ==
    IF f.oob THEN With_Ret(c, Fault(c.t, "oob"), SIZE_MAX)
    ELSE With_Ret(c, c.t, f.pos)

\* What the caller of insert does once insert has returned: operator[]
\* (the call l in progress) looks the key up again, any other caller is done.
Resume(c, h, l) ==
    IF l.op = "index" /\ c.pc = "idle" /\ c.t.fault = "none"
    THEN Index_Return(c, find_position(c.t, h, l.arg))
    ELSE With_Ret(c, c.t, l.ret)

\* operator[](key) up to the first loop head of its insert
Index_At(t, h, mlf, gf, conv, key, f) ==
    IF f.oob \/ f.pos # SIZE_MAX THEN Index_Return(Done(t), f)
    ELSE Resume(insert(t, h, mlf, gf, conv, [k |-> key, v |-> Default_Value]), h,
                [op |-> "index", arg |-> key, ret |-> SIZE_MAX])
index(t, h, mlf, gf, conv, key) ==
    Index_At(t, h, mlf, gf, conv, key, find_position(t, h, key))

\* at(key) that answers a miss with a default value instead of throwing
At_Pos_NoThrow(t, f) ==
    IF f.oob THEN [t |-> Fault(t, "oob"), ret |-> Out_Of_Range]
    ELSE IF f.pos = SIZE_MAX THEN [t |-> t, ret |-> Default_Value]
    ELSE [t |-> t, ret |-> t.payload[f.pos].v]

\* at(key): [t, ret]
At_Pos(t, f) ==
    IF f.oob THEN [t |-> Fault(t, "oob"), ret |-> Out_Of_Range]
    ELSE IF f.pos = SIZE_MAX THEN [t |-> t, ret |-> Out_Of_Range]
    ELSE [t |-> t, ret |-> t.payload[f.pos].v]
at_key(t, h, key) == At_Pos(t, find_position(t, h, key))

\* ------------------------------------------------------------------------
\* Actions
\* ------------------------------------------------------------------------
Occupied == {i \in 0 .. (num_buckets - 1) : Byte_Label(metadata[i]) # 0}

Commit(c) ==
    /\ metadata' = c.t.metadata
    /\ payload' = c.t.payload
    /\ num_elems' = c.t.num_elems
    /\ num_buckets' = c.t.num_buckets
    /\ fault' = c.t.fault
    /\ pc' = c.pc
    /\ elem' = c.elem
    /\ new_num_buckets' = c.new_num_buckets
    /\ secondary_tmp' = c.secondary_tmp
    /\ cont' = c.cont

\* a step inside a call: the result of the call is known when it returns
Return(c) == Commit(c) /\ last' = [last EXCEPT !.ret = c.ret]

\* the first step of a call of op
Start(c, op, arg) == Commit(c) /\ last' = [op |-> op, arg |-> arg, ret |-> c.ret]

Idle == pc = "idle" /\ fault = "none"

\* A public operation is called.  Runs are cut by a budget of MaxOps units:
\* insert, reserve and the setter of grow_factor, which fill the table and
\* decide its growth, spend one unit, the other operations two.
Call(units) == Idle /\ ops + units <= MaxOps /\ ops' = ops + units

\* the values are opaque to the table: each insert of a key brings a value
\* that differs from the one the key was given before
Insert(key, val) ==
    /\ Call(1)
    /\ val = (ref[key].v % NumVals) + 1
    /\ \E conv \in Conv :
          Commit(insert(Table, hasher, max_load_factor, grow_factor, conv,
                        [k |-> key, v |-> val]))
    /\ last' = [op |-> "insert", arg |-> key, ret |-> 0]
    /\ ref' = [ref EXCEPT ![key] = [in |-> TRUE, v |-> val]]
    /\ UNCHANGED <<rounds, max_load_factor, grow_factor, hasher>>

\* insert: rehash(get_grow_size()) after try_insert returned false, and retry
Insert_Retry ==
    /\ pc = "retry" /\ fault = "none"
    /\ \E conv \in Conv :
          Return(Resume(rehash(Table, hasher,
                               get_grow_size(num_buckets, grow_factor, conv),
                               "try", elem),
                        hasher, last))
    /\ UNCHANGED <<rounds, max_load_factor, grow_factor, hasher, ops, ref>>

\* rehash: the next pass, after a try_insert of the drain returned false
Rehash_Again ==
    /\ pc = "rehash" /\ fault = "none"
    /\ Return(Resume(Run_Rehash_Pass(Table, hasher, new_num_buckets, secondary_tmp,
                                      cont, elem),
                      hasher, last))
    /\ UNCHANGED <<rounds, max_load_factor, grow_factor, hasher, ops, ref>>

Erase(key) ==
    /\ Call(2)
    /\ Commit(Done(erase(Table, hasher, key).t))
    /\ last' = [op |-> "erase", arg |-> key, ret |-> erase(Table, hasher, key).ret]
    /\ ref' = [ref EXCEPT ![key].in = FALSE]
    /\ UNCHANGED <<rounds, max_load_factor, grow_factor, hasher>>

\* count(elem) / find
Find(key) ==
    /\ Call(2)
    /\ Commit(Done(IF find_position(Table, hasher, key).oob
                    THEN Fault(Table, "oob") ELSE Table))
    /\ last' = [op |-> "find", arg |-> key, ret |-> find_position(Table, hasher, key).pos]
    /\ UNCHANGED <<rounds, max_load_factor, grow_factor, hasher, ref>>

\* m[key]
Index(key) ==
    /\ Call(2)
    /\ \E conv \in Conv :
          Start(index(Table, hasher, max_load_factor, grow_factor, conv, key),
                "index", key)
    /\ ref' = IF ref[key].in THEN ref
              ELSE [ref EXCEPT ![key] = [in |-> TRUE, v |-> Default_Value]]
    /\ UNCHANGED <<rounds, max_load_factor, grow_factor, hasher>>

\* m.at(key)
At(key) ==
    /\ Call(2)
    /\ Commit(Done(at_key(Table, hasher, key).t))
    /\ last' = [op |-> "at", arg |-> key, ret |-> at_key(Table, hasher, key).ret]
    /\ UNCHANGED <<rounds, max_load_factor, grow_factor, hasher, ref>>

Reserve(new_capacity) ==
    /\ Call(1)
    /\ Commit(rehash(Table, hasher, new_capacity, "idle", Uninit))
    /\ last' = [op |-> "reserve", arg |-> new_capacity, ret |-> 0]
    /\ UNCHANGED <<rounds, max_load_factor, grow_factor, hasher, ref>>

ClearTable ==
    /\ Call(2)
    /\ Commit(Done(clear(Table)))
    /\ last' = [op |-> "clear", arg |-> 0, ret |-> 0]
    /\ ref' = [k \in Keys |-> [ref[k] EXCEPT !.in = FALSE]]
    /\ UNCHANGED <<rounds, max_load_factor, grow_factor, hasher>>

Set_Max_Load_Factor(value) ==
    /\ Call(2)
    /\ max_load_factor' = value
    /\ last' = [op |-> "max_load_factor", arg |-> value, ret |-> 0]
    /\ UNCHANGED <<rounds, metadata, payload, num_elems, num_buckets, grow_factor, fault,
                   hasher, pc, elem, new_num_buckets, secondary_tmp, cont, ref>>

Set_Grow_Factor(value) ==
    /\ Call(1)
    /\ grow_factor' = value
    /\ last' = [op |-> "grow_factor", arg |-> value, ret |-> 0]
    /\ UNCHANGED <<rounds, metadata, payload, num_elems, num_buckets, max_load_factor, fault,
                   hasher, pc, elem, new_num_buckets, secondary_tmp, cont, ref>>

\* reserve is called with capacities around the current one
ReserveArgs ==
    {n \in num_buckets .. (num_buckets + MaxReserveStep) : n <= MaxReserve}

Init ==
    /\ \E t \in {Default_Constructed} \cup {Constructed(n) : n \in 1 .. MaxInitCap} :
          /\ metadata = t.metadata
          /\ payload = t.payload
          /\ num_elems = t.num_elems
          /\ num_buckets = t.num_buckets
          /\ fault = t.fault
    /\ max_load_factor = 9001
    /\ grow_factor = 11
    /\ hasher \in 1 .. NumHashers
    /\ pc = "idle"
    /\ elem = Uninit
    /\ new_num_buckets = 0
    /\ secondary_tmp = <<>>
    /\ cont = "idle"
    /\ last = [op |-> "new", arg |-> 0, ret |-> 0]
    /\ ops = 0
    /\ rounds = 0
    /\ ref = [k \in Keys |-> [in |-> FALSE, v |-> 0]]

Next ==
    \/ \E key \in Keys, val \in Vals : Insert(key, val)
    \/ Insert_Retry
    \/ Rehash_Again
    \/ \E key \in Keys : Erase(key)
    \/ \E key \in Keys : Find(key)
    \/ \E key \in Keys : Index(key)
    \/ \E key \in Keys : At(key)
    \/ \E n \in ReserveArgs : Reserve(n)
    \/ ClearTable
    \/ \E value \in MaxLoadFactors : Set_Max_Load_Factor(value)
    \/ \E value \in GrowFactors : Set_Grow_Factor(value)

Spec == Init /\ [][Next]_vars

\* ------------------------------------------------------------------------
\* insert with try_insert run one round at a time
\* ------------------------------------------------------------------------
\* the control record after one iteration of the while (true)
Stepped(r) ==
    IF r.t.fault # "none" \/ r.status = "placed" THEN Done(r.t)
    ELSE IF r.status = "evicted" THEN Begin_Try(r.t, r.elem)
    ELSE Retry(r)

\* insert(to_insert_elem) up to the top of try_insert's loop
Insert_Begin(key, val) ==
    /\ Call(1)
    /\ val = (ref[key].v % NumVals) + 1
    /\ \E conv \in Conv :
          Commit(IF Load_Reached(Table, max_load_factor)
                 THEN rehash(Table, hasher,
                             get_grow_size(num_buckets, grow_factor, conv),
                             "round", [k |-> key, v |-> val])
                 ELSE Begin_Try(Table, [k |-> key, v |-> val]))
    /\ rounds' = 0
    /\ last' = [op |-> "insert", arg |-> key, ret |-> 0]
    /\ ref' = [ref EXCEPT ![key] = [in |-> TRUE, v |-> val]]
    /\ UNCHANGED <<max_load_factor, grow_factor, hasher>>

\* one iteration of the while (true) of try_insert
Try_Round ==
    /\ pc = "try" /\ fault = "none"
    /\ IF rounds >= RoundFuel(Table)
       THEN Commit(Done(Fault(Table, "hang"))) /\ rounds' = rounds
       ELSE /\ Commit(Stepped(TryInsertRound(Table, hasher, elem)))
            /\ rounds' = IF pc' = "try" THEN rounds + 1 ELSE rounds
    /\ UNCHANGED <<max_load_factor, grow_factor, hasher, last, ops, ref>>

\* insert: rehash(get_grow_size()) after try_insert returned false
Try_Retry ==
    /\ pc = "retry" /\ fault = "none"
    /\ \E conv \in Conv :
          Commit(rehash(Table, hasher, get_grow_size(num_buckets, grow_factor, conv),
                        "round", elem))
    /\ rounds' = 0
    /\ UNCHANGED <<max_load_factor, grow_factor, hasher, last, ops, ref>>

\* rehash: the next pass, after a try_insert of the drain returned false
Try_Rehash_Again ==
    /\ pc = "rehash" /\ fault = "none"
    /\ Commit(Run_Rehash_Pass(Table, hasher, new_num_buckets, secondary_tmp, cont, elem))
    /\ rounds' = 0
    /\ UNCHANGED <<max_load_factor, grow_factor, hasher, last, ops, ref>>

\* erase(elem), spending one unit of the budget
Try_Erase(key) ==
    /\ Call(1)
    /\ Commit(Done(erase(Table, hasher, key).t))
    /\ last' = [op |-> "erase", arg |-> key, ret |-> erase(Table, hasher, key).ret]
    /\ ref' = [ref EXCEPT ![key].in = FALSE]
    /\ UNCHANGED <<rounds, max_load_factor, grow_factor, hasher>>

NextTry ==
    \/ \E key \in Keys, val \in Vals : Insert_Begin(key, val)
    \/ Try_Round
    \/ Try_Retry
    \/ Try_Rehash_Again
    \/ \E key \in Keys : Try_Erase(key)
    \/ \E n \in ReserveArgs : Reserve(n)

SpecTry == Init /\ [][NextTry]_vars

\* ------------------------------------------------------------------------
\* Eviction chains: a table built with room for ChainCap elements, the ring
\* hasher, the keys inserted in turn, try_insert run one round at a time
\* ------------------------------------------------------------------------
InitChain ==
    /\ \E t \in {Constructed(n) : n \in (ChainCap - 1) .. ChainCap} :
          /\ metadata = t.metadata
          /\ payload = t.payload
          /\ num_elems = t.num_elems
          /\ num_buckets = t.num_buckets
          /\ fault = t.fault
    /\ max_load_factor = 9001
    /\ grow_factor = 11
    /\ hasher \in {-1, 0}
    /\ pc = "idle"
    /\ elem = Uninit
    /\ new_num_buckets = 0
    /\ secondary_tmp = <<>>
    /\ cont = "idle"
    /\ last = [op |-> "new", arg |-> 0, ret |-> 0]
    /\ ops = 0
    /\ rounds = 0
    /\ ref = [k \in Keys |-> [in |-> FALSE, v |-> 0]]

\* insert(key, val) up to the top of try_insert's loop, in a table that
\* still has its first capacity
Chain_Insert(key, val) ==
    /\ Idle /\ ops < ChainOps /\ ops' = ops + 1
    /\ key \in {ops % NumKeys, (ops + (ops \div NumKeys)) % NumKeys}
    /\ val = (ref[key].v % NumVals) + 1
    /\ ~Load_Reached(Table, max_load_factor)
    /\ Commit(Begin_Try(Table, [k |-> key, v |-> val]))
    /\ rounds' = 0
    /\ last' = [op |-> "insert", arg |-> key, ret |-> 0]
    /\ ref' = [ref EXCEPT ![key] = [in |-> TRUE, v |-> val]]
    /\ UNCHANGED <<max_load_factor, grow_factor, hasher>>

NextChain ==
    \/ \E key \in Keys, val \in Vals : Chain_Insert(key, val)
    \/ Try_Round

SpecChain == InitChain /\ [][NextChain]_vars

\* ------------------------------------------------------------------------
\* Two anchors: a table built for up to PairCap elements, a hasher that
\* gives every key the same two hashes, the keys inserted one after another
\* ------------------------------------------------------------------------
InitPair ==
    /\ \E t \in {Constructed(n) : n \in 1 .. PairCap} :
          /\ metadata = t.metadata
          /\ payload = t.payload
          /\ num_elems = t.num_elems
          /\ num_buckets = t.num_buckets
          /\ fault = t.fault
    /\ max_load_factor = 9001
    /\ grow_factor = 11
    /\ hasher = NumHashers + 1
    /\ pc = "idle"
    /\ elem = Uninit
    /\ new_num_buckets = 0
    /\ secondary_tmp = <<>>
    /\ cont = "idle"
    /\ last = [op |-> "new", arg |-> 0, ret |-> 0]
    /\ ops = 0
    /\ rounds = 0
    /\ ref = [k \in Keys |-> [in |-> FALSE, v |-> 0]]

\* insert(key, val) up to the top of try_insert's loop; ops counts the
\* inserts begun
Pair_Insert(key, val) ==
    /\ Idle /\ ops < PairOps /\ ops' = ops + 1
    /\ key = ops % NumKeys
    /\ val = (ref[key].v % NumVals) + 1
    /\ \E conv \in Conv :
          Commit(IF Load_Reached(Table, max_load_factor)
                 THEN rehash(Table, hasher,
                             get_grow_size(num_buckets, grow_factor, conv),
                             "round", [k |-> key, v |-> val])
                 ELSE Begin_Try(Table, [k |-> key, v |-> val]))
    /\ rounds' = 0
    /\ last' = [op |-> "insert", arg |-> key, ret |-> num_buckets]
    /\ ref' = [ref EXCEPT ![key] = [in |-> TRUE, v |-> val]]
    /\ UNCHANGED <<max_load_factor, grow_factor, hasher>>

NextPair ==
    \/ \E key \in Keys, val \in Vals : Pair_Insert(key, val)
    \/ Try_Round
    \/ Try_Retry

SpecPair == InitPair /\ [][NextPair]_vars

\* ------------------------------------------------------------------------
\* Observations of the table
\* ------------------------------------------------------------------------
\* find(k) in the current state
Lookup(k) == find_position(Table, hasher, k)
Found(k) == ~Lookup(k).oob /\ Lookup(k).pos # SIZE_MAX
Missed(k) == ~Lookup(k).oob /\ Lookup(k).pos = SIZE_MAX
ValueOf(k) == payload[Lookup(k).pos].v

\* the occupied cells holding k
CellsOf(k) == {i \in Occupied : payload[i].k = k}

\* the last B-1 anchors are marked bucket_reversed
Tail_Reversed ==
    \A i \in 0 .. (NUM_ELEMS_BUCKET - 2) :
        /\ num_buckets - 1 - i >= 0
        /\ Byte_BucketReversed(metadata[num_buckets - 1 - i])

\* between two public operations, on a table with storage whose tail
\* anchors are reversed
Well_Formed == Idle /\ num_buckets > 0 /\ Tail_Reversed

\* the step is a call of the public operation op
Called(op) == ops' # ops /\ last'.op = op

\* ------------------------------------------------------------------------
\* Properties
\* ------------------------------------------------------------------------
\* C1: between operations find(k) answers as the reference map does, for
\* every key k: a hit with the value inserted last when k is in the
\* reference, a miss otherwise.
C1_FindMatchesReference ==
    Well_Formed =>
        \A k \in Keys :
            IF ref[k].in THEN Found(k) /\ ValueOf(k) = ref[k].v ELSE Missed(k)

\* C2: between operations size() is the number of cells whose label is not 0.
C2_SizeCountsOccupied == Idle => num_elems = Cardinality(Occupied)

\* C3: an insert of a key that find already hits, stored in one cell, leaves
\* the key in one cell, size() as it was and find(k) on the value stored
\* before.
C3_DuplicateInsertIsNoOp ==
    [][\A k \in Keys :
          (/\ Called("insert") /\ last'.arg = k
           /\ Well_Formed /\ Found(k) /\ Cardinality(CellsOf(k)) = 1
           /\ pc' = "idle" /\ fault' = "none")
          => /\ Cardinality(CellsOf(k)') = 1
             /\ num_elems' = num_elems
             /\ Found(k)' /\ ValueOf(k)' = ValueOf(k)]_vars

\* C4: between operations, on a table with storage, each of the last B-1
\* anchors has bucket_reversed = 1.
C4_TailAnchorsReversed == (Idle /\ num_buckets > 0) => Tail_Reversed

\* C5: when insert has returned, size() <= capacity() and
\* size() / capacity() <= max_load_factor.
C5_LoadWithinMaximum ==
    (Idle /\ last.op = "insert")
    => /\ num_elems <= num_buckets
       /\ num_elems * 10000 <= num_buckets * max_load_factor

\* C6: erase(k) returns 1 exactly when find(k) hit before the call; after it
\* returned 1 for a key stored once find(k) misses; find answers as before
\* for every other key; when it returns 0 no metadata or payload changed.
C6_Erase ==
    [][\A k \in Keys :
          (Called("erase") /\ last'.arg = k)
          => /\ fault' = "none"
             /\ (last'.ret = 1) <=> Found(k)
             /\ (last'.ret = 1 /\ Cardinality(CellsOf(k)) = 1) => Missed(k)'
             /\ \A j \in Keys \ {k} :
                   /\ Found(j) <=> Found(j)'
                   /\ Missed(j) <=> Missed(j)'
                   /\ Found(j) => ValueOf(j)' = ValueOf(j)
             /\ last'.ret = 0 => (metadata' = metadata /\ payload' = payload)]_vars

\* C7: on a table with storage, reserve(n) with n <= capacity() changes
\* nothing; reserve(n) with n > capacity(), when it has returned, leaves
\* capacity() >= n, every key found before found with the same value, every
\* key missed before missed, and size() the number of occupied cells.
C7_Reserve ==
    [][\A n \in 0 .. MaxReserve :
          (Called("reserve") /\ last'.arg = n /\ num_buckets > 0)
          => /\ n <= num_buckets =>
                  /\ fault' = "none" /\ pc' = "idle"
                  /\ <<metadata, payload, num_elems, num_buckets>>' =
                         <<metadata, payload, num_elems, num_buckets>>
             /\ n > num_buckets => fault' = "none"
             /\ (n > num_buckets /\ pc' = "idle" /\ fault' = "none") =>
                  /\ num_buckets' >= n
                  /\ num_elems' = Cardinality(Occupied')
                  /\ \A k \in Keys :
                        /\ Found(k) => (Found(k)' /\ ValueOf(k)' = ValueOf(k))
                        /\ Missed(k) => Missed(k)']_vars

\* C8: on a default-constructed table find(k) returns a miss and size() is
\* 0, and no cell outside [0, capacity) is read.
C8_FindOnDefaultConstructed ==
    (last.op = "find" /\ num_buckets = 0)
    => /\ fault = "none"
       /\ last.ret = SIZE_MAX
       /\ num_elems = 0

\* an iteration of the while (!try_insert(elem)) rehash(get_grow_size()) loop
\* of insert leaves the program where it was: the loop never ends
Retry_Forever ==
    /\ pc = "retry" /\ fault = "none"
    /\ \A conv \in Conv :
          rehash(Table, hasher, get_grow_size(num_buckets, grow_factor, conv), "try", elem)
              = [t |-> Table, pc |-> pc, elem |-> elem,
                 new_num_buckets |-> new_num_buckets,
                 secondary_tmp |-> secondary_tmp, cont |-> cont]

\* C9: the rehash-and-retry loop of insert does not run for ever.
C9_InsertTerminates == ~Retry_Forever

\* C10: clear() leaves size() = 0, every cell empty with unlucky_bucket = 0,
\* capacity() as it was and exactly the last B-1 anchors bucket_reversed; a
\* second clear() changes nothing.
C10_Clear ==
    [][Called("clear")
       => /\ fault' = "none"
          /\ num_elems' = 0
          /\ num_buckets' = num_buckets
          /\ \A i \in 0 .. (num_buckets' - 1) :
                /\ Byte_Label(metadata'[i]) = 0
                /\ ~Byte_Unlucky(metadata'[i])
                /\ Byte_BucketReversed(metadata'[i])
                     <=> (i >= num_buckets' - (NUM_ELEMS_BUCKET - 1))
          /\ clear(Table') = Table']_vars

\* C11: m[k] for a key k that no occupied cell holds leaves size() one larger
\* and find(k) hitting a cell with the default value, the cell the returned
\* reference designates; for a key that is stored it changes no cell and the
\* reference designates a cell holding k.
C11_Index ==
    [][\A k \in Keys :
          (Called("index") /\ last'.arg = k)
          => /\ fault' = "none"
             /\ (CellsOf(k) = {} /\ pc' = "idle") =>
                  /\ num_elems' = num_elems + 1
                  /\ Found(k)' /\ ValueOf(k)' = Default_Value
                  /\ last'.ret = Lookup(k)'.pos
             /\ CellsOf(k) # {} =>
                  /\ metadata' = metadata /\ payload' = payload
                  /\ last'.ret \in CellsOf(k)]_vars

\* C12: at(k) called when find(k) misses ends in the not-found outcome and
\* leaves size, capacity and every cell as they were; called when find(k)
\* hits it returns the value of a cell holding k, never the not-found outcome.
C12_At ==
    [][\A k \in Keys :
          (Called("at") /\ last'.arg = k)
          => /\ Missed(k) =>
                  /\ last'.ret = Out_Of_Range
                  /\ fault' = "none" /\ pc' = "idle"
                  /\ <<metadata, payload, num_elems, num_buckets>>' =
                         <<metadata, payload, num_elems, num_buckets>>
             /\ Found(k) =>
                  /\ fault' = "none" /\ pc' = "idle"
                  /\ last'.ret # Out_Of_Range
                  /\ last'.ret \in {payload[i].v : i \in CellsOf(k)}]_vars

\* at(k) has thrown on a table that holds other keys
C12_Witness ==
    /\ last.op = "at" /\ last.ret = Out_Of_Range /\ fault = "none"
    /\ CellsOf(last.arg) = {} /\ Occupied # {}

\* C13: a step that neither rehashes to a larger table nor is a clear()
\* leaves bucket_reversed and unlucky_bucket set in every cell where they
\* were set.
C13_FlagsMonotone ==
    [][(num_buckets' = num_buckets /\ ~Called("clear"))
       => \A i \in 0 .. (num_buckets - 1) :
             /\ Byte_BucketReversed(metadata[i]) => Byte_BucketReversed(metadata'[i])
             /\ Byte_Unlucky(metadata[i]) => Byte_Unlucky(metadata'[i])]_vars

\* erase has emptied an anchor cell that is marked bucket_reversed
C13_Witness ==
    /\ last.op = "erase" /\ last.ret = 1 /\ fault = "none"
    /\ \E i \in 0 .. (num_buckets - 1) :
          /\ Byte_BucketReversed(metadata[i])
          /\ Byte_Label(metadata[i]) = 0
          /\ payload[i].k = last.arg

\* max(n + 2B - 2, floor(n * grow_factor)), saturating at the maximum size
Grow_Bound(n, gf) == Min(SIZE_MAX, Max(n + MIN_BINS_SIZE, (n * gf) \div 10))

Load_Above(mlf) == num_elems * 10000 > num_buckets * mlf

\* C15: on a table with storage, setting max_load_factor to a value below
\* the current load changes that parameter and nothing else; an insert
\* called next, with the capacity below the maximum size, has rehashed to a
\* larger table by the time it tries to place its element.
C15_SetMaxLoadFactor ==
    [][/\ (Called("max_load_factor") /\ num_buckets > 0 /\ Load_Above(last'.arg))
          => /\ max_load_factor' = last'.arg
             /\ UNCHANGED <<metadata, payload, num_elems, num_buckets, grow_factor,
                            fault, hasher, pc>>
       /\ (/\ last.op = "max_load_factor" /\ Called("insert")
           /\ num_buckets > 0 /\ num_buckets < SIZE_MAX
           /\ Load_Above(max_load_factor))
          => num_buckets' > num_buckets]_vars

\* max_load_factor has just been set below the load of the table
C15_Witness ==
    /\ last.op = "max_load_factor" /\ max_load_factor = last.arg
    /\ num_buckets > 0 /\ Load_Above(max_load_factor) /\ fault = "none"

\* C16: between operations, on a table with storage, load_factor() equals
\* size() / capacity() and lies in [0, 1].
C16_LoadFactor ==
    (Idle /\ num_buckets > 0)
    => /\ load_factor(Table).num * num_buckets = num_elems * load_factor(Table).den
       /\ load_factor(Table).num >= 0
       /\ load_factor(Table).num <= load_factor(Table).den

\* the anchors p0 = reduce(H0(k)) and p1 = reduce(H1(k)) of a key
Primary(k) == fastrange(Hasher(hasher, k)[1], num_buckets)
Secondary_Anchor(k) == fastrange(Hasher(hasher, k)[2], num_buckets)
Anchors(k) == {Primary(k), Secondary_Anchor(k)}

\* the current window of anchor p: forward [p, p+B) or reversed [p-B+1, p]
Window(p) ==
    IF Byte_BucketReversed(metadata[p])
    THEN (p - (NUM_ELEMS_BUCKET - 1)) .. p
    ELSE p .. (p + NUM_ELEMS_BUCKET - 1)

\* C17: in every state, every occupied cell c records the orientation of an
\* anchor that owns it: an anchor p of the key it holds, with c in the
\* window of p, has reversed_item(c) = bucket_reversed(p).
C17_DistanceAndOrientation ==
    fault = "none"
    => \A i \in Occupied :
          \E p \in Anchors(payload[i].k) :
              /\ i \in Window(p)
              /\ Byte_ReverseItem(metadata[i]) <=> Byte_BucketReversed(metadata[p])

\* C18: in every state, every occupied cell lies inside the current window of
\* one of the two anchors of the key it holds.
C18_CellInWindowOfKey ==
    fault = "none"
    => \A i \in Occupied : \E p \in Anchors(payload[i].k) : i \in Window(p)

\* C19: in every state, a stored key in a cell outside the window of its
\* primary anchor p0 has unlucky_bucket(p0) = 1.
C19_UnluckyMarksSecondary ==
    fault = "none"
    => \A i \in Occupied :
          i \notin Window(Primary(payload[i].k))
          => Byte_Unlucky(metadata[Primary(payload[i].k)])

\* the payloads a table can hold
Elems == [k : Keys, v : {Default_Value} \cup Vals]

\* how many occupied cells hold the payload e
In_Table(e) == Cardinality({i \in Occupied : payload[i] = e})

\* how many copies of e the insert or rehash in progress holds outside the
\* table: the element variable of insert and the defer list of rehash
In_Hand(e) ==
    (IF (pc = "retry" \/ (pc = "rehash" /\ cont = "try")) /\ elem = e THEN 1 ELSE 0)
    + (IF pc = "rehash"
       THEN Cardinality({j \in DOMAIN secondary_tmp : secondary_tmp[j] = e})
       ELSE 0)

Held(e) == In_Table(e) + In_Hand(e)

\* the payload a call adds: the argument of insert, the default-valued pair
\* of an m[k] whose lookup misses
Added(e) ==
    IF \/ Called("insert") /\ e = [k |-> last'.arg, v |-> ref'[last'.arg].v]
       \/ Called("index") /\ Missed(last'.arg)
             /\ e = [k |-> last'.arg, v |-> Default_Value]
    THEN 1 ELSE 0

At_Round == pc = "try" /\ fault = "none" /\ rounds < RoundFuel(Table)
\* the locals it computes at its top
Round_Locals == Locals(Table, hasher, elem.k)
\* the step is an iteration that evicted / returned false / placed
Evicts == At_Round /\ pc' = "try" /\ rounds' = rounds + 1 /\ fault' = "none"
Fails == At_Round /\ pc' = "retry" /\ fault' = "none"
Places == At_Round /\ pc' = "idle" /\ fault' = "none"

\* the first search of the round, made when the first bucket is full
First_Search(L) == Find_Empty_Pos_Hopscotch(Table, L.bucket1_pos, L.bucket1_init)
\* the second search, made on the table t the first left, above 90% load
Second_Search(t, L) == Find_Empty_Pos_Hopscotch(t, L.bucket2_pos, L.bucket2_init)

No_Space(r) == r.t.fault = "none" /\ r.pos = SIZE_MAX

\* the tables t and u agree on the label of every cell and on the
\* bucket_reversed flags of the two anchors of L
Same_Frame(t, u, L) ==
    /\ \A i \in 0 .. (t.num_buckets - 1) : Get_Label(t, i) = Get_Label(u, i)
    /\ Is_Bucket_Reversed(t, L.bucket1_pos) = Is_Bucket_Reversed(u, L.bucket1_pos)
    /\ Is_Bucket_Reversed(t, L.bucket2_pos) = Is_Bucket_Reversed(u, L.bucket2_pos)

Second_Search_Frame(t, L) ==
    (L.min2 # 0 /\ Load_Above_90(t) /\ No_Space(Second_Search(t, L)))
       => Same_Frame(t, Second_Search(t, L).t, L)

First_Search_Frame(r, L) ==
    No_Space(r) => Same_Frame(Table, r.t, L) /\ Second_Search_Frame(r.t, L)

Round_Out == TryInsertRound(Table, hasher, elem)
\* the round writes the element in hand into a cell
Round_Writes ==
    At_Round /\ Round_Out.t.fault = "none" /\ Round_Out.status \in {"placed", "evicted"}
\* the minimum label over the window of the anchor alt in the table t
Alt_Min(t, alt) == MinLabel(t, Bucket_Init(t, alt))[1]

\* The fast places of the scan of rehash over the old cells i, i-1, .., 1 of
\* the table t, in order: the table each was made on, the table it left and
\* the key moved
RECURSIVE Fast_Writes(_, _, _)
Fast_Writes_Next(t, h, i, f) ==
    (IF f.moved /\ f.t.fault = "none"
     THEN <<[before |-> t, after |-> f.t, key |-> GetKey(t, i)]>> ELSE <<>>)
    \o Fast_Writes(Clear(f.t, i, 1), h, i - 1)
Fast_Writes(t, h, i) ==
    IF i <= 0 \/ t.fault # "none" THEN <<>>
    ELSE IF Is_Empty(t, i) THEN Fast_Writes(Clear(t, i, 1), h, i - 1)
    ELSE Fast_Writes_Next(t, h, i, Fast_Place(t, h, i))

\* the fast places of the rehash insert runs after a failed try_insert
Retry_Size == get_grow_size(num_buckets, grow_factor, 0)
Retry_Writes ==
    IF pc = "retry" /\ fault = "none" /\ Retry_Size > num_buckets
    THEN Fast_Writes(Init_Metadata(Realloc(Table, Retry_Size), num_buckets), hasher,
                     num_buckets - 1)
    ELSE <<>>

\* the label a fast place wrote: that of the one cell it filled
Fast_Label(w) ==
    CHOOSE l \in 1 .. L_MAX :
        \E c \in 0 .. (w.after.num_buckets - 1) :
            Is_Empty(w.before, c) /\ Get_Label(w.after, c) = l
\* the anchor of the other bucket of a key placed in its first bucket
Alt_Of(t, h, key) == fastrange(Hasher(h, key)[2], t.num_buckets)

\* the label the rule gives next to an alternate bucket of minimum m
Ruled(m) == Min(m + 1, L_MAX)
\* the label the round about to run writes
Round_Label == Get_Label(Round_Out.t, Round_Out.pos)
\* a fast place of the rehash about to run breaks / follows the rule
Fast_Ruled(w) == Fast_Label(w) = Ruled(Alt_Min(w.before, Alt_Of(w.before, hasher, w.key)))

\* C22: every write of an element into a cell, by a round of try_insert or
\* by the fast place of rehash, gives it the label min(m + 1, L_MAX), m being
\* the minimum label over the alternate bucket at the moment of the write.
C22_LabelRule ==
    /\ Round_Writes => Round_Label = Ruled(Alt_Min(Round_Out.before, Round_Out.alt))
    /\ \A j \in DOMAIN Retry_Writes : Fast_Ruled(Retry_Writes[j])

\* C22 as amended: a round of try_insert writes min(m + 1, L_MAX), m being
\* the minimum label of the alternate bucket computed at the top of the
\* round; the fast place of rehash writes the label 1.
C22_LabelRuleAtTop ==
    /\ Round_Writes => Round_Label = Ruled(Alt_Min(Table, Round_Out.alt))
    /\ \A j \in DOMAIN Retry_Writes : Fast_Label(Retry_Writes[j]) = 1

\* a round writes after its search moved elements, next to an alternate
\* bucket whose minimum is no longer the one computed at the top
C22_Witness ==
    /\ Round_Writes /\ Round_Out.before # Table
    /\ Alt_Min(Round_Out.before, Round_Out.alt) # Alt_Min(Table, Round_Out.alt)
    /\ Round_Label = Ruled(Alt_Min(Table, Round_Out.alt))

\* some occupied cell holds a key whose first anchor is p inside the window
\* of that key's second anchor
Lost_To_Secondary(p) ==
    \E i \in Occupied :
        /\ payload[i].k \in Keys
        /\ Primary(payload[i].k) = p
        /\ i \in Window(Secondary_Anchor(payload[i].k))

\* C23: in every state, an anchor whose unlucky_bucket flag is set has at
\* least one key of its own (H0 maps to it) residing in that key's H1 bucket.
C23_UnluckyHasSecondary ==
    (fault = "none" /\ pc = "idle")
       => \A p \in 0 .. (num_buckets - 1) :
             Byte_Unlucky(metadata[p]) => Lost_To_Secondary(p)

\* the step raises the unlucky_bucket flag of p in a table that keeps its
\* capacity
Unlucky_Raised(p) ==
    /\ num_buckets' = num_buckets /\ fault' = "none"
    /\ ~Byte_Unlucky(metadata[p]) /\ Byte_Unlucky(metadata'[p])

\* the window of anchor p in the table t
Window_In(t, p) ==
    Bucket_Init(t, p) .. (Bucket_Init(t, p) + NUM_ELEMS_BUCKET - 1)

\* the step is a round that writes the element in hand, whose H0 maps to p,
\* into a cell of the window of its H1 anchor
Placed_In_Secondary(p) ==
    /\ Round_Writes
    /\ Primary(elem.k) = p
    /\ Round_Out.alt = p
    /\ payload'[Round_Out.pos] = elem
    /\ Byte_Label(metadata'[Round_Out.pos]) # 0
    /\ Round_Out.pos \in Window_In(Round_Out.t, Secondary_Anchor(elem.k))

\* C23 as amended: the unlucky_bucket flag of p is raised only by a round of
\* try_insert that places an element whose H0 maps to p in its H1 bucket;
\* the flag then stays set when that element is erased or evicted (C13).
C23_UnluckySetBySecondary ==
    [][\A p \in 0 .. (num_buckets - 1) : Unlucky_Raised(p) => Placed_In_Secondary(p)]_vars

\* the round about to run raises an unlucky_bucket flag
C23_Witness ==
    /\ Round_Writes
    /\ \E p \in 0 .. (num_buckets - 1) :
          ~Byte_Unlucky(metadata[p]) /\ Is_Unlucky_Bucket(Round_Out.t, p)

\* the round about to run reaches the eviction step: it neither faults nor
\* places the element
Reaches_Eviction ==
    At_Round /\ Round_Out.t.fault = "none" /\ Round_Out.status \in {"evicted", "failed"}
\* it returns false and leaves the table as it was
Fails_Untouched == Round_Out.status = "failed" /\ Round_Out.t = Table

\* C24: a round that reaches the eviction step with max(min1, min2) >= L_MAX
\* reports failure without evicting or modifying any cell.
C24_MaxSaturated ==
    (Reaches_Eviction /\ Max(Round_Locals.min1, Round_Locals.min2) >= L_MAX)
       => Fails_Untouched

\* C24 as amended: a round that reaches the eviction step with
\* min(min1, min2) >= L_MAX reports failure without evicting or modifying
\* any cell.
C24_MinSaturated ==
    (Reaches_Eviction /\ Min(Round_Locals.min1, Round_Locals.min2) >= L_MAX)
       => Fails_Untouched

\* a round reaches the eviction step with both minima at L_MAX, the two
\* buckets being different windows
C24_Witness ==
    /\ Reaches_Eviction /\ Min(Round_Locals.min1, Round_Locals.min2) >= L_MAX
    /\ Round_Locals.bucket1_init # Round_Locals.bucket2_init

\* every cell of the window starting at bucket_init has the label L_MAX
All_At_L_MAX(bucket_init) ==
    \A i \in 0 .. (NUM_ELEMS_BUCKET - 1) : Get_Label(Table, bucket_init + i) = L_MAX

\* C25: a round of try_insert returns failure only when every cell of both
\* candidate buckets of the element in hand has the label L_MAX and the
\* searches it made found no space; in every other state it places the
\* element or evicts.
C25_FailsOnlySaturated ==
    (At_Round /\ Round_Out.t.fault = "none")
       => IF Round_Out.status = "failed"
          THEN /\ All_At_L_MAX(Round_Locals.bucket1_init)
               /\ All_At_L_MAX(Round_Locals.bucket2_init)
               /\ No_Space(First_Search(Round_Locals))
               /\ Load_Above_90(Table) => No_Space(Second_Search(Table, Round_Locals))
          ELSE Round_Out.status \in {"placed", "evicted"}

\* a round returns failure after the evictions of earlier rounds have
\* raised every label of the two buckets to L_MAX
C25_Witness ==
    /\ At_Round /\ Round_Out.t.fault = "none" /\ Round_Out.status = "failed"
    /\ rounds > 0
    /\ No_Space(First_Search(Round_Locals))
    /\ All_At_L_MAX(Round_Locals.bucket1_init)

\* the sum of the labels of the cells 0 .. n-1 of the metadata array md
RECURSIVE Label_Sum(_, _)
Label_Sum(md, n) == IF n <= 0 THEN 0 ELSE Byte_Label(md[n - 1]) + Label_Sum(md, n - 1)

C27_RoundsWithinTwoBuckets == rounds <= L_MAX * NUM_ELEMS_BUCKET * 2

\* C27 amended: one call of try_insert performs at most L_MAX * num_buckets
\* eviction rounds (every round raises the sum of the labels of the table,
\* which is at most L_MAX per cell) and never runs out of the round fuel
C27_RoundsWithinLabels == rounds <= L_MAX * num_buckets /\ fault # "hang"

\* a call that is past L_MAX * B * 2 eviction rounds and still running
C27_Witness == At_Round /\ rounds > L_MAX * NUM_ELEMS_BUCKET * 2

\* ------------------------------------------------------------------------
\* C28
\* ------------------------------------------------------------------------
\* the bucket an eviction of the round goes through, and the cell it takes
Evicts_First == Round_Locals.min1 <= Round_Locals.min2
Evict_Anchor ==
    IF Evicts_First THEN Round_Locals.bucket1_pos ELSE Round_Locals.bucket2_pos
Evict_Cell == IF Evicts_First THEN Round_Locals.pos1 ELSE Round_Locals.pos2

Searches_First == At_Round /\ Round_Locals.min1 # 0
\* the anchors the table st has reversed and the current table has not
Reversed_Since(st) ==
    IF st.fault # "none" THEN {}
    ELSE {q \in 0 .. (num_buckets - 1) :
            Is_Bucket_Reversed(st, q) /\ ~Byte_BucketReversed(metadata[q])}
\* the anchors that search reverses
Newly_Reversed ==
    IF Searches_First THEN Reversed_Since(First_Search(Round_Locals).t) ELSE {}
\* the search reverses the bucket it started from
Reversed_Here == Round_Locals.bucket1_pos \in Newly_Reversed

\* the cells of [p, p+B) holding non-reversed elements anchored at p
Forward_At(p) ==
    {c \in p .. (p + NUM_ELEMS_BUCKET - 1) :
        /\ c < num_buckets
        /\ Byte_Label(metadata[c]) # 0
        /\ ~Byte_ReverseItem(metadata[c])
        /\ c - Byte_Distance(metadata[c]) = p}
\* the empty cells of [p-B+1, p]
Empty_Below(p) ==
    {c \in (p - NUM_ELEMS_BUCKET + 1) .. p : c >= 0 /\ Byte_Label(metadata[c]) = 0}
\* their number, one more when cell p holds an element anchored at p
Empties_With_Credit(p) ==
    IF Empty_Below(p) # {} /\ Belong_to_Bucket(Table, p) = p
    THEN Cardinality(Empty_Below(p)) + 1
    ELSE Cardinality(Empty_Below(p))

\* the element of cell c is found in cell d of the table st, as a reversed
\* item of the same anchor with the label it had
Moved_To(st, c, d) ==
    /\ st.payload[d] = payload[c]
    /\ Byte_Label(st.metadata[d]) = Byte_Label(metadata[c])
    /\ Byte_ReverseItem(st.metadata[d])
    /\ Belong_to_Bucket(st, d) = Belong_to_Bucket(Table, c)
\* cell c holds in st what it holds now, under the same label, distance and
\* reversed_item
Stayed(st, c) ==
    /\ st.payload[c] = payload[c]
    /\ st.metadata[c] % 64 = metadata[c] % 64

\* what a reversal of p leaves in st: the elements that were anchored at p
\* lie in [p-B+1, p], the cells they left above p are empty, every other
\* element is where it was
Reversed_Into(st, p) ==
    /\ \A c \in Forward_At(p) :
          /\ \E d \in Empty_Below(p) \cup {p} : Moved_To(st, c, d)
          /\ c > p => Is_Empty(st, c)
    /\ \A c \in 0 .. (num_buckets - 1) :
          (Byte_Label(metadata[c]) # 0 /\ c \notin Forward_At(p)) => Stayed(st, c)

\* C29: when the search of a round reverses bucket p, then p was not
\* reversed, p >= B and the empties of [p-B+1, p] with the credit exceeded
\* the non-reversed elements anchored at p; afterwards every such element
\* lies in [p-B+1, p] as a reversed item with its label, the cells it left
\* above p are empty, every other element is where it was, and the moves
\* stayed inside the table
C29_BucketReversal ==
    /\ Reversed_Here
         => /\ Round_Locals.bucket1_pos >= NUM_ELEMS_BUCKET
            /\ Empties_With_Credit(Round_Locals.bucket1_pos)
                 > Cardinality(Forward_At(Round_Locals.bucket1_pos))
            /\ Reversed_Into(First_Search(Round_Locals).t, Round_Locals.bucket1_pos)
    /\ (Searches_First /\ FEPH_Reverses(Table, Round_Locals.bucket1_pos))
         => Reverse_Bucket(Table, Round_Locals.bucket1_pos).fault = "none"

\* a search that reverses its bucket and moves two elements or more
C29_Witness ==
    Reversed_Here /\ Cardinality(Forward_At(Round_Locals.bucket1_pos)) >= 2

\* ------------------------------------------------------------------------
\* C30
\* ------------------------------------------------------------------------
\* the buckets the search of the round reverses, other than the one it
\* started from
Reversed_Near == Newly_Reversed \ {Round_Locals.bucket1_pos}

\* C30 as stated: a neighbouring anchor q is reversed only when the empties
\* of [q-B+1, q] with the credit are strictly more than the non-reversed
\* elements anchored at q
C30_NeighbourStrictlyMore ==
    \A q \in Reversed_Near : Empties_With_Credit(q) > Cardinality(Forward_At(q))

\* C30 amended: a neighbouring anchor q is reversed only when there is an
\* empty cell in [q-B+1, q] and the empties with the credit are at least as
\* many as the non-reversed elements anchored at q
C30_NeighbourAtLeast ==
    \A q \in Reversed_Near :
        /\ Empty_Below(q) # {}
        /\ Empties_With_Credit(q) >= Cardinality(Forward_At(q))

\* a search that reverses a neighbouring bucket holding an element
C30_Witness == \E q \in Reversed_Near : Forward_At(q) # {}

\* ------------------------------------------------------------------------
\* C31
\* ------------------------------------------------------------------------
\* no hopscotch step in the search
No_Hop == [t |-> Table, init |-> 0, runs |-> FALSE]
\* the table and window start the hopscotch stage of the search starts
\* from, after the neighbour stage chose q on the table t0
Hop_After_Neighbour(t1, init, q) ==
    IF t1.fault # "none" \/ (q # SIZE_MAX /\ Calculate_Minimum(t1, init)[1] = 0)
    THEN No_Hop
    ELSE [t |-> t1, init |-> init, runs |-> TRUE]
Hop_After_Bucket(t0, p, init, reversed) ==
    IF t0.fault # "none" \/ (reversed /\ Calculate_Minimum(t0, init)[1] = 0)
    THEN No_Hop
    ELSE IF init >= 2 * NUM_ELEMS_BUCKET
    THEN Hop_After_Neighbour(NR_Table(t0, NR_Find(t0, p, init, 0)), init, NR_Find(t0, p, init, 0))
    ELSE Hop_After_Neighbour(t0, init, SIZE_MAX)
Hop_Of(p, init) ==
    IF FEPH_Oob(Table, p) THEN No_Hop
    ELSE IF FEPH_Reverses(Table, p)
    THEN Hop_After_Bucket(Reverse_Bucket(Table, p), p, p + 1 - NUM_ELEMS_BUCKET, TRUE)
    ELSE Hop_After_Bucket(Table, p, init, FALSE)
\* the hopscotch step of the search of the round, if it gets that far
Hop_Input ==
    IF Searches_First
    THEN Hop_Of(Round_Locals.bucket1_pos, Round_Locals.bucket1_init)
    ELSE No_Hop

Occupied_In(t) == {c \in 0 .. (t.num_buckets - 1) : ~Is_Empty(t, c)}
\* the element of cell c of t is in cell d of u with its label and
\* reversed_item, a distance of at most B - 1 and the anchor it had
Kept_At(t, u, c, d) ==
    /\ u.payload[d] = t.payload[c]
    /\ Get_Label(u, d) = Get_Label(t, c)
    /\ Is_Item_In_Reverse_Bucket(u, d) = Is_Item_In_Reverse_Bucket(t, c)
    /\ Distance_to_Entry_Bin(u, d) <= NUM_ELEMS_BUCKET - 1
    /\ Belong_to_Bucket(u, d) = Belong_to_Bucket(t, c)
\* what a hopscotch step from window start init on table t may return
Hop_Sound(t, init, r) ==
    /\ r.t.fault = "none"
    /\ r.pos # SIZE_MAX
         => /\ r.pos >= init /\ r.pos < init + NUM_ELEMS_BUCKET
            /\ r.pos < t.num_buckets
            /\ \A c \in Occupied_In(t) :
                  \E d \in Occupied_In(r.t) \ {r.pos} :
                      /\ d >= c /\ d - c < NUM_ELEMS_BUCKET
                      /\ Kept_At(t, r.t, c, d)
            /\ Cardinality(Occupied_In(r.t) \ {r.pos}) = Cardinality(Occupied_In(t))
    /\ r.pos = SIZE_MAX => r.t = t
Hop_Checked(hi) ==
    hi.runs => /\ Hop_Sound(hi.t, hi.init, Hopscotch(hi.t, hi.init))
               /\ First_Search(Round_Locals) = Hopscotch(hi.t, hi.init)

\* C31: the hopscotch step of a search terminates; a position it returns
\* lies in the window [init, init+B) of the bucket searched for and no
\* element is left only there, so the caller may fill it; every element is
\* found, where it was or moved up by less than B cells, with its label and
\* reversed_item, a distance of at most B - 1 and the anchor its metadata
\* named before
C31_Hopscotch == Hop_Checked(Hop_Input)

\* a hopscotch step that moves an element to bring the blank into the window
Hop_Moves(hi) ==
    /\ hi.runs
    /\ Hopscotch(hi.t, hi.init).pos # SIZE_MAX
    /\ Hopscotch(hi.t, hi.init).t # hi.t
C31_Witness == Hop_Moves(Hop_Input)

\* ------------------------------------------------------------------------
\* C32
\* ------------------------------------------------------------------------
\* the table after the scan of a rehash of the current table to n cells
Scanned_To(n) ==
    Scan_First(Scan_From(Init_Metadata(Realloc(Table, n), num_buckets),
                         hasher, num_buckets, <<>>)).t

\* C32: between two operations, a rehash to any larger capacity scans the
\* old cells num_buckets - 1 down to 0 and touches no cell outside the new
\* table, whatever the old capacity, 0 included
C32_ScanInOldRange ==
    (pc = "idle" /\ fault = "none")
       => \A n \in ReserveArgs : n > num_buckets => Scanned_To(n).fault = "none"

\* ------------------------------------------------------------------------
\* C33
\* ------------------------------------------------------------------------
\* every empty cell has distance 0 and reversed_item 0
Empty_Cells_Zero ==
    \A i \in 0 .. (num_buckets - 1) :
        Byte_Label(metadata[i]) = 0 => metadata[i] % 64 = 0
\* the step is an erase that found its key
Erases == pc = "idle" /\ fault = "none" /\ fault' = "none" /\ last'.op = "erase" /\ last'.ret = 1
\* the step leaves bucket_reversed and unlucky_bucket of every cell alone
Flags_Kept ==
    \A i \in 0 .. (num_buckets - 1) : metadata'[i] \div 64 = metadata[i] \div 64

\* C33: in every state without a fault every empty cell has distance 0 and
\* reversed_item 0, and an erase that empties a cell leaves the
\* bucket_reversed and unlucky_bucket flags of every cell as they were
C33_EmptyCellsZero ==
    /\ [](fault = "none" => Empty_Cells_Zero)
    /\ [][Erases => Flags_Kept]_vars

\* a cell just emptied by erase that carries a bucket flag
C33_Witness ==
    /\ pc = "idle" /\ fault = "none" /\ last.op = "erase" /\ last.ret = 1
    /\ \E i \in 0 .. (num_buckets - 1) :
          /\ Byte_Label(metadata[i]) = 0
          /\ metadata[i] >= 64
          /\ payload[i].k = last.arg

\* ---------------------------------------------------------------------
\* C34: two anchor positions, keys inserted one after another
\* ---------------------------------------------------------------------

\* the insert in progress, or just returned, is the n-th of the scenario
\* and the capacity is still the one it was called with: no rehash yet
Nth_Before_Rehash(n) == ops = n /\ num_buckets = last.ret

\* the first try_insert call of the 7th insert is over, by success or failure
Seventh_Tried == Nth_Before_Rehash(7) /\ pc \in {"idle", "retry"}

\* the 9th insert has returned
Ninth_Returned == ops = PairOps /\ pc = "idle"

\* C34: with every key hashed to the same two anchors, the first
\* try_insert call of the 7th insert makes at least one eviction round,
\* no insert before the 9th is caught for ever in the rehash-and-retry
\* loop of insert, so that the 9th insert takes place, and the 9th
\* insert returns with a capacity other than the one it was called with.
C34_SeventhEvictsNinthRehashes ==
    /\ Seventh_Tried => rounds >= 1
    /\ ops < PairOps => ~Retry_Forever
    /\ Ninth_Returned => num_buckets # last.ret

====
